---- MODULE Spec2Model ----
(***************************************************************************)
(* Batch execution engine of the audio batch processor: the BatchProcessor *)
(* scheduler in its three revisions (full-pipeline slot release, early     *)
(* slot release, configurable ceiling), the per-item pipeline, the MP3     *)
(* worker pool in its two revisions, the archive finalizer with its        *)
(* archive naming, and the App's throttled status channel.                 *)
(***************************************************************************)
EXTENDS Integers, Sequences, FiniteSets, TLC

VARIABLES
    variant,        \* which BatchProcessor revision was constructed
    files,          \* constructor argument: the items 1..files
    fileNames,      \* per item: AudioFile.name, as a sequence of characters
    config,         \* ConfigOptions: playbackRate, soundOptimization, concurrency
    queue,          \* BatchProcessor.queue
    active,         \* activeRenderers / activeContexts / activeCount
    results,        \* BatchProcessor.results, in push order
    errors,         \* BatchProcessor.errors, in push order
    processedCount, \* BatchProcessor.processedCount (early-release revision)
    pc,             \* per item: the await processSingleFile is suspended at
    hist,           \* per item: the <<status, progress>> pairs handed to onUpdate
    runs,           \* per item: number of processSingleFile invocations
    startCalls,     \* number of start() calls made so far
    finalizing,     \* finalize() invocations suspended at zip.generateAsync
    completeCalls,  \* number of onComplete invocations
    report,         \* the ProcessReport of the latest onComplete invocation
    wstate,         \* per pool worker: "init", "free" or "busy"
    wtask,          \* per pool worker: the task id it is encoding, 0 if none
    workers,        \* WorkerPool.workers (the free list)
    pqueue,         \* WorkerPool.queue
    tasks,          \* WorkerPool.tasks (ids of the pending requests)
    pactive,        \* WorkerPool.active
    threw,          \* items one of whose pipeline steps has thrown
    started,        \* the items in the order their pipelines were started
    finished,       \* the items in the order they were reported completed
    isProcessing,   \* App state isProcessing
    ui,             \* App state files: per item the rendered <<status, progress>>
    uiMounted,      \* whether the UI loop effect of isProcessing = true is in place
    uiLoop,         \* the UI loop's pending callback: "off", "raf" or "timer"
    poolRev,        \* which WorkerPool revision mp3Pool is
    created,        \* number of Worker objects mp3Pool has constructed
    inits,          \* number of mp3Pool.init() calls made so far
    nextTask,       \* number of tasks the pool's direct client has submitted
    readied,        \* workers whose 'ready' message has been handled
    settled,        \* the <<task id, "resolve" | "reject">> settlements, in order
    zipFileName,    \* config.zipFileName, as a sequence of characters
    zipName,        \* the name finalize() gave the archive, <<>> before that
    archive,        \* the entries of the JSZip object of the latest finalize()
    trimRev,        \* which trimmer revision is applied
    buffer,         \* the trimmer's input: lengths of leading silence, sound, trailing silence
    trimResult,     \* <<>> before the trimmer ran, then <<its result>>
    quantRev,       \* which convertBuffer revision is applied
    float32,        \* the Float32Array elements handed to convertBuffer, in order
    int16,          \* the Int16Array elements produced so far, in order
    policy,         \* which resolver revision is applied
    request,        \* config.pitchShift and config.playbackRate of the item
    source          \* <<>> before the resolver ran, then <<the source node's parameters>>

batchVars == <<queue, active, results, errors, processedCount, pc, hist,
               runs, startCalls, finalizing, completeCalls, report, wstate,
               wtask, workers, pqueue, tasks, pactive, threw, started,
               finished, created, readied, settled, archive>>

\* The variables of the engine, the pool, the App and the archive name.
engineVars == <<variant, files, fileNames, config, queue, active, results, errors,
                processedCount, pc, hist, runs, startCalls, finalizing,
                completeCalls, report, wstate, wtask, workers, pqueue, tasks,
                pactive, threw, started, finished, isProcessing, ui,
                uiMounted, uiLoop, poolRev, created, inits, nextTask, readied,
                settled, zipFileName, zipName, archive>>

\* The variables of the signal-processing functions applied on their own.
pureVars ==
    <<trimRev, buffer, trimResult, quantRev, float32, int16, policy, request, source>>

vars == <<engineVars, pureVars>>

\* ---- bounds of the model ------------------------------------------------
MaxFiles == 2
MaxLiveFiles == 1
MaxStarts == 2
MaxConcurrency == 2
maxWorkers == 1
MaxInits == 2
MaxTasks == 2
MaxNameLen == 3
MaxChunks == 2
MaxNum == 40

\* ---- program constants --------------------------------------------------
MAX_ACTIVE_RENDER_CONTEXTS == 6
HARD_LIMIT_AUDIO_CONTEXTS == 12

Variants == {"full", "early", "legacy"}
PlaybackRates == {0, 1}
Items == 1..files
Workers == 1..maxWorkers
PoolRevs == {"guarded", "unguarded"}
PoolWorkers == 1..(maxWorkers * MaxInits)

\* The engine state as one record, so that handlers calling each other
\* synchronously compose as functions on it.
St ==
    [queue |-> queue, active |-> active, results |-> results,
     errors |-> errors, processedCount |-> processedCount, pc |-> pc,
     hist |-> hist, runs |-> runs, finalizing |-> finalizing,
     wstate |-> wstate, wtask |-> wtask, workers |-> workers,
     pqueue |-> pqueue, tasks |-> tasks, pactive |-> pactive,
     started |-> started, finished |-> finished, created |-> created,
     readied |-> readied, settled |-> settled, archive |-> archive]

\* The handler's result is computed once and assigned to the variables.
Apply(s) ==
    \E t \in {s} :
        /\ queue' = t.queue
        /\ active' = t.active
        /\ results' = t.results
        /\ errors' = t.errors
        /\ processedCount' = t.processedCount
        /\ pc' = t.pc
        /\ hist' = t.hist
        /\ runs' = t.runs
        /\ finalizing' = t.finalizing
        /\ wstate' = t.wstate
        /\ wtask' = t.wtask
        /\ workers' = t.workers
        /\ pqueue' = t.pqueue
        /\ tasks' = t.tasks
        /\ pactive' = t.pactive
        /\ started' = t.started
        /\ finished' = t.finished
        /\ created' = t.created
        /\ readied' = t.readied
        /\ settled' = t.settled
        /\ archive' = t.archive

\* ---- the progress observer ----------------------------------------------
\* this.onUpdate(id, status, progress)
onUpdate(s, i, status, progress) ==
    [s EXCEPT !.hist[i] = Append(@, <<status, progress>>)]

\* First onUpdate of processSingleFile / processFile.
FirstStatus ==
    CASE variant = "full" -> <<"decoding", 5>>
      [] variant = "early" -> <<"decoding", 10>>
      [] OTHER -> <<"processing", 10>>

\* onUpdate after the decode await.
SecondStatus ==
    CASE variant = "full" -> <<"rendering", 25>>
      [] variant = "early" -> <<"rendering", 30>>
      [] OTHER -> <<"processing", 30>>

\* onUpdate before the encode step.
EncodingProgress == IF variant = "legacy" THEN 60 ELSE 80

\* ---- WorkerPool -----------------------------------------------------------
\* The loop of init(): maxWorkers new workers, each sent { cmd: 'init' }.
Spawn(s) ==
    [s EXCEPT !.created = @ + maxWorkers,
              !.wstate = [w \in DOMAIN @ |->
                             IF w \in (s.created + 1)..(s.created + maxWorkers)
                             THEN "init" ELSE @[w]]]

\* An init() that puts the new workers on the free list at once.
initEager(s) ==
    IF poolRev = "guarded" /\ Len(s.workers) > 0
    THEN s
    ELSE LET t == Spawn(s)
         IN [t EXCEPT !.workers =
                 @ \o [k \in 1..maxWorkers |-> s.created + k]]

\* WorkerPool.init(): part_003 returns when the free list is not empty,
\* utils/workerPool.ts has no such test.
init(s) ==
    IF poolRev = "guarded" /\ Len(s.workers) > 0 THEN s ELSE Spawn(s)

\* A run() that takes the newest queued task: pop() instead of shift().
runNewest(s) ==
    IF s.pqueue = <<>> \/ s.workers = <<>>
    THEN s
    ELSE LET task == s.pqueue[Len(s.pqueue)]
             worker == s.workers[Len(s.workers)]
         IN [s EXCEPT !.pqueue = SubSeq(@, 1, Len(@) - 1),
                      !.workers = SubSeq(@, 1, Len(@) - 1),
                      !.pactive = @ + 1,
                      !.wstate[worker] = "busy",
                      !.wtask[worker] = task]

\* A run() that sends the task to the last free worker and leaves it on the
\* free list.
runKeep(s) ==
    IF s.pqueue = <<>> \/ s.workers = <<>>
    THEN s
    ELSE LET task == Head(s.pqueue)
             worker == s.workers[Len(s.workers)]
         IN [s EXCEPT !.pqueue = Tail(@),
                      !.pactive = @ + 1,
                      !.wstate[worker] = "busy",
                      !.wtask[worker] = task]

\* A run() that returns at once.
runIdle(s) == s

\* WorkerPool.run(): hand the oldest queued task to the worker popped off the
\* free list.
run(s) ==
    IF s.pqueue = <<>> \/ s.workers = <<>>
    THEN s
    ELSE LET task == Head(s.pqueue)
             worker == s.workers[Len(s.workers)]
         IN [s EXCEPT !.pqueue = Tail(@),
                      !.workers = SubSeq(@, 1, Len(@) - 1),
                      !.pactive = @ + 1,
                      !.wstate[worker] = "busy",
                      !.wtask[worker] = task]

\* WorkerPool.encode(id, data): register the request, queue the task, run().
encode(s, id) ==
    run([s EXCEPT !.tasks = @ \cup {id}, !.pqueue = Append(@, id)])

\* Settling the oldest pending request, whatever id the message carries.
SettleOldest(s, id, cmd) ==
    IF cmd \in {"done", "error"} /\ s.tasks # {}
    THEN LET oldest == CHOOSE x \in s.tasks : \A y \in s.tasks : x <= y
         IN [s EXCEPT !.settled =
                Append(@, <<oldest,
                            IF cmd = "done" THEN "resolve" ELSE "reject">>)]
    ELSE s

\* this.tasks.get(id)?.resolve(blob) on 'done', ?.reject(new Error(msg)) on
\* 'error': the pending request with that id, if there is one, is settled.
Settle(s, id, cmd) ==
    IF cmd \in {"done", "error"} /\ id \in s.tasks
    THEN [s EXCEPT !.settled =
             Append(@, <<id, IF cmd = "done" THEN "resolve" ELSE "reject">>)]
    ELSE s

\* A handler that returns the worker to the free list without draining the
\* task queue.
handlerNoRun(s, w, cmd) ==
    LET id == s.wtask[w]
        s0 == Settle(s, id, cmd)
        s1 == IF cmd # "ready"
              THEN [s0 EXCEPT !.tasks = @ \ {id}, !.pactive = @ - 1]
              ELSE [s0 EXCEPT !.readied = @ \cup {w}]
    IN [s1 EXCEPT !.workers = Append(@, w),
                  !.wstate[w] = "free",
                  !.wtask[w] = 0]

\* WorkerPool.handler(w, e) for cmd in {"ready", "done", "error"}: settle
\* the request (the promise continuation runs afterwards), put the worker
\* on the free list, run().
handler(s, w, cmd) ==
    LET id == s.wtask[w]
        s0 == Settle(s, id, cmd)
        s1 == IF cmd # "ready"
              THEN [s0 EXCEPT !.tasks = @ \ {id}, !.pactive = @ - 1]
              ELSE [s0 EXCEPT !.readied = @ \cup {w}]
    IN run([s1 EXCEPT !.workers = Append(@, w),
                      !.wstate[w] = "free",
                      !.wtask[w] = 0])

\* ---- the silence trimmer ---------------------------------------------------
\* smartTrim of services/audioProcessor.ts, trimSilence of part_005 and the
\* older trimSilence of utils/workerPool.ts.
TrimRevs == {"smartTrim", "trimSilence", "older"}

\* The scan step of the two loops.
Stride ==
    CASE trimRev = "smartTrim" -> 32
      [] trimRev = "trimSilence" -> 100
      [] OTHER -> 50

\* The number of samples kept before the first and after the last hit.
Pad ==
    CASE trimRev = "smartTrim" -> 512
      [] trimRev = "trimSilence" -> 100
      [] OTHER -> 50

\* Segment lengths: shorter than, equal to and longer than a scan step, and
\* around multiples of the largest pad.
SegLens == {0, 1, 31, 32, 33} \cup {512 * k + d : k \in 1..MaxChunks, d \in {0, 1, 40}}

\* A buffer is silence, then samples above the threshold, then silence.
Buffers == [lead : SegLens, loud : SegLens, tail : SegLens]

\* buffer.length
Length(b) == b.lead + b.loud + b.tail

\* max over the channels of |getChannelData(c)[i]| > threshold
Loud(b, i) == i >= b.lead /\ i < b.lead + b.loud

Max(x, y) == IF x >= y THEN x ELSE y
Min(x, y) == IF x <= y THEN x ELSE y

\* A start that is not kept inside the buffer.
TrimStartUnclamped(i) == i - Pad

\* start = Math.max(0, i - pad)
TrimStart(i) == Max(0, i - Pad)

\* The forward scan: the first sampled index above the threshold decides
\* start; start stays 0 when there is none.
ScanForward(b) ==
    LET hits == {i \in 0..(Length(b) - 1) : i % Stride = 0 /\ Loud(b, i)}
    IN IF hits = {} THEN 0
       ELSE TrimStart(CHOOSE i \in hits : \A j \in hits : i <= j)

\* The backward scan from length - 1 down to start: the first sampled
\* index above the threshold decides end; end stays length otherwise.
ScanBackward(b, start) ==
    LET hits == {i \in start..(Length(b) - 1) :
                    (Length(b) - 1 - i) % Stride = 0 /\ Loud(b, i)}
    IN IF hits = {} THEN Length(b)
       ELSE Min(Length(b), (CHOOSE i \in hits : \A j \in hits : i >= j) + Pad)

\* The trimmer: fresh tells whether a new buffer was created, holding the
\* samples start..end-1 of the input; otherwise the input object is
\* returned. The older revision lacks the test newLength >= length.
smartTrim(b) ==
    LET start == ScanForward(b)
        end == ScanBackward(b, start)
        newLength == end - start
    IN IF newLength <= 0 \/ (trimRev # "older" /\ newLength >= Length(b))
       THEN [fresh |-> FALSE, start |-> 0, end |-> Length(b)]
       ELSE [fresh |-> TRUE, start |-> start, end |-> end]

\* No signal-processing function is being applied on its own.
TrimIdle ==
    /\ trimRev = "smartTrim"
    /\ buffer = [lead |-> 0, loud |-> 0, tail |-> 0]
    /\ trimResult = <<>>

\* ---- the quantizer ----------------------------------------------------------
\* convertBuffer of services/audioProcessor.ts (Math.max / Math.min) and of
\* the early-release revision (conditional clamp).
QuantRevs == {"minmax", "manual"}

\* A Float32Array element: kind "num" is (-1)^neg * m * 2^(-e) with m = 0
\* or 2^23 <= m < 2^24 (a 24-bit significand); "nan" is NaN.
NaN == [kind |-> "nan", neg |-> FALSE, m |-> 0, e |-> 0]
Zero == [kind |-> "num", neg |-> FALSE, m |-> 0, e |-> 0]

RECURSIVE Normalize(_, _, _, _)
\* Binary long division of rem / d continued until the quotient has 24
\* bits: <<quotient, remainder, exponent>>.
Normalize(quot, rem, d, e) ==
    IF quot >= 2^23
    THEN <<quot, rem, e>>
    ELSE LET r2 == 2 * rem
         IN IF r2 >= d
            THEN Normalize(2 * quot + 1, r2 - d, d, e + 1)
            ELSE Normalize(2 * quot, r2, d, e + 1)

\* Storing the number n / d into a Float32Array: rounding to the nearest
\* 24-bit significand, ties to even.
ToFloat32(n, d) ==
    IF n = 0 THEN Zero
    ELSE LET a == IF n < 0 THEN -n ELSE n
             qre == Normalize(a \div d, a % d, d, 0)
             up == 2 * qre[2] > d \/ (2 * qre[2] = d /\ qre[1] % 2 = 1)
             m == IF up THEN qre[1] + 1 ELSE qre[1]
         IN IF m = 2^24
            THEN [kind |-> "num", neg |-> n < 0, m |-> 2^23, e |-> qre[3] - 1]
            ELSE [kind |-> "num", neg |-> n < 0, m |-> m, e |-> qre[3]]

\* The numerators tried: around zero and around full scale.
SmallNums == -MaxNum..MaxNum
BigNums == ((32768 - MaxNum)..32769) \cup ((-32769)..(MaxNum - 32768))

\* The samples tried: small integers and thirds (inside and outside
\* [-1, 1]), multiples of 1/32767 and of 1/32768, and NaN.
Samples ==
    {ToFloat32(n, d) : n \in SmallNums, d \in {1, 3}}
    \cup {ToFloat32(n, d) : n \in SmallNums \cup BigNums, d \in {32767, 32768}}
    \cup {NaN}

\* |s| > 1
AboveOne(s) ==
    /\ s.kind = "num"
    /\ s.m > 0
    /\ (s.e < 23 \/ (s.e = 23 /\ s.m > 2^23))

One(neg) == [kind |-> "num", neg |-> neg, m |-> 2^23, e |-> 23]

\* A conversion that scales the sample as it is.
clampNone(s) == s

\* Math.max(-1, Math.min(1, s)) in convertBuffer of audioProcessor.ts,
\* s < -1 ? -1 : s > 1 ? 1 : s in the early-release revision; a comparison
\* with NaN is false and Math.min / Math.max of NaN is NaN.
clamp(s) ==
    IF quantRev = "minmax"
    THEN LET least == IF AboveOne(s) /\ ~s.neg THEN One(FALSE) ELSE s
         IN IF AboveOne(least) /\ least.neg THEN One(TRUE) ELSE least
    ELSE IF AboveOne(s) /\ s.neg THEN One(TRUE)
         ELSE IF AboveOne(s) /\ ~s.neg THEN One(FALSE)
         ELSE s

\* The integer part of m * 2^(-e) * k; the product is exact in double
\* precision. Computed in two halves of the significand.
ScaledTrunc(s, k) ==
    LET a == (s.m \div 4096) * k
        b == (s.m % 4096) * k
    IN (a + (b \div 4096)) \div 2^(s.e - 12)

\* Storing x into an Int16Array: modulo 2^16 into -32768..32767.
ToInt16(x) == ((x + 32768) % 65536) - 32768

\* int16[i] = s < 0 ? s * 0x8000 : s * 0x7FFF for the clamped sample s;
\* the store truncates toward zero, NaN is stored as 0.
convertBuffer(f) ==
    LET s == clamp(f)
    IN CASE s.kind = "nan" -> 0
         [] s.m = 0 -> 0
         [] s.neg -> ToInt16(-ScaledTrunc(s, 32768))
         [] OTHER -> ToInt16(ScaledTrunc(s, 32767))

\* Decoding an int16 back to a Float32Array element: q / 32768 for q < 0,
\* q / 32767 for q >= 0.
Decoded(q) == IF q < 0 THEN ToFloat32(q, 32768) ELSE ToFloat32(q, 32767)

QuantIdle ==
    /\ quantRev = "minmax"
    /\ float32 = <<>>
    /\ int16 = <<>>

\* ---- the pitch / speed resolver --------------------------------------------
\* processSingleFile of services/audioProcessor.ts sets playbackRate to the
\* speed and detune to the compensation ("pitchPure"); the revision at the
\* head of unnamed/part_004 also multiplies playbackRate by
\* 2^(-detune/1200) ("speedExact").
Policies == {"pitchPure", "speedExact"}

\* The sliders of ConfigurationPanel.tsx: pitch in semitones, speed in
\* steps of 0.05.
PitchMin == -12
PitchMax == 12
SpeedMin == 10
SpeedMax == 40
SpeedSteps == 20

Requests == [pitchShift : PitchMin..PitchMax, playbackRate : SpeedMin..SpeedMax]

\* Numbers are kept in binary fixed point: Unit is 1.0. Cents are kept in
\* units of 2^(-16) cent.
Unit == 2^20
Cent == 2^16
LN2 == 726817

\* a * b for non-negative a and b, the product formed in halves.
FixMul(a, b) ==
    LET ah == a \div 1024
        al == a % 1024
        bh == b \div 1024
        bl == b % 1024
    IN ah * bh + ((ah * bl + al * bh) \div 1024) + ((al * bl) \div Unit)

RECURSIVE Log2Int(_, _)
\* x = y * 2^n with 1 <= y < 2: <<y, n>>
Log2Int(x, n) ==
    IF x >= 2 * Unit THEN Log2Int(x \div 2, n + 1)
    ELSE IF x < Unit THEN Log2Int(2 * x, n - 1)
    ELSE <<x, n>>

RECURSIVE Log2Frac(_, _, _)
\* The binary digits of log2(x) for 1 <= x < 2, by repeated squaring.
Log2Frac(x, bit, acc) ==
    IF bit > 20 THEN acc
    ELSE LET sq == FixMul(x, x)
         IN IF sq >= 2 * Unit
            THEN Log2Frac(sq \div 2, bit + 1, acc + 2^(20 - bit))
            ELSE Log2Frac(sq, bit + 1, acc)

\* Math.log2
log2(x) ==
    LET yn == Log2Int(x, 0)
    IN yn[2] * Unit + Log2Frac(yn[1], 1, 0)

RECURSIVE ExpSeries(_, _, _, _)
\* 1 + z + z^2/2! + ... for 0 <= z < 1
ExpSeries(z, term, n, acc) ==
    IF term = 0 \/ n > 16 THEN acc
    ELSE LET next == FixMul(term, z) \div n
         IN ExpSeries(z, next, n + 1, acc + next)

\* Math.pow(2, y)
pow2(y) ==
    LET k == y \div Unit
        f == y - k * Unit
        p == ExpSeries(FixMul(f, LN2), Unit, 1, Unit)
    IN IF k >= 0 THEN p * 2^k ELSE p \div 2^(-k)

\* this.config.playbackRate
finalRate(req) == (req.playbackRate * Unit) \div SpeedSteps

\* The pitch change per octave of speed, without the twelve semitones.
implicitOctaves(req) == log2(finalRate(req))

\* implicitPitchChange = 12 * Math.log2(this.config.playbackRate)
\* (naturalPitchShift in unnamed/part_004), in semitones.
implicitPitchChange(req) == 12 * log2(finalRate(req))

\* compensationPitch = this.config.pitchShift - implicitPitchChange
compensationPitch(req) == req.pitchShift * Unit - implicitPitchChange(req)

\* source.detune.value = compensationPitch * 100 (detuneValue in
\* unnamed/part_004), in cents.
detune(req) == (compensationPitch(req) \div (Unit \div Cent)) * 100

\* 2^(x / 1200) for x in cents.
CentsRatio(x) == pow2(x \div ((1200 * Cent) \div Unit))

\* A correction with the sign of the detune.
speedCorrectionSameSign(req) == CentsRatio(detune(req))

\* speedCorrection = Math.pow(2, -detuneValue / 1200)
speedCorrection(req) == CentsRatio(-detune(req))

\* The parameters set on the buffer source node.
resolve(req) ==
    [implicit |-> implicitPitchChange(req),
     detune |-> detune(req),
     playbackRate |->
        IF policy = "speedExact"
        THEN FixMul(finalRate(req), speedCorrection(req))
        ELSE finalRate(req)]

\* The speed at which the source node plays: playbackRate times
\* 2^(detune / 1200).
computedPlaybackRate(src) == FixMul(src.playbackRate, CentsRatio(src.detune))

ResolveIdle ==
    /\ policy = "pitchPure"
    /\ request = [pitchShift |-> 0, playbackRate |-> SpeedSteps]
    /\ source = <<>>

PureIdle == TrimIdle /\ QuantIdle /\ ResolveIdle

\* ---- the archive name ------------------------------------------------------
\* The characters archive names are built from; "processed_audio" stands for
\* that run of lower-case characters in the default name.
Alphabet == {" ", ".", "z", "i", "p", "Z", "M", "x"}

Names == UNION {[1..n -> Alphabet] : n \in 0..MaxNameLen}

DotZip == <<".", "z", "i", "p">>

\* 'processed_audio.zip'
DefaultName == <<"processed_audio">> \o DotZip

\* String.prototype.toLowerCase
toLowerCase(str) ==
    [k \in 1..Len(str) |->
        CASE str[k] = "Z" -> "z"
          [] str[k] = "M" -> "m"
          [] OTHER -> str[k]]

\* String.prototype.trim: drop the white space at both ends.
trim(str) ==
    LET inked == {k \in 1..Len(str) : str[k] # " "}
    IN IF inked = {} THEN <<>>
       ELSE LET first == CHOOSE k \in inked : \A m \in inked : k <= m
                last == CHOOSE k \in inked : \A m \in inked : k >= m
            IN SubSeq(str, first, last)

\* str.endsWith('.zip')
endsWithZip(str) ==
    Len(str) >= 4 /\ SubSeq(str, Len(str) - 3, Len(str)) = DotZip

\* The name finalize() gives the archive: trim, append '.zip' unless the
\* name ends with it in any letter case, and, in audioProcessor.ts only,
\* replace a bare '.zip' by the default name.
zipNameOf(name) ==
    LET trimmed == trim(name)
        ext == IF endsWithZip(toLowerCase(trimmed))
               THEN trimmed
               ELSE trimmed \o DotZip
    IN IF variant = "full" /\ ext = DotZip THEN DefaultName ELSE ext

\* ---- output file names ------------------------------------------------------
DotMp3 == <<".", "m", "p", "3">>

\* The source names tried: a.w and a.f differ in their extension only.
SourceNames == {<<"a", ".", "w">>, <<"a", ".", "f">>, <<"b", ".", "w">>}

\* Names that differ from item to item: t.w, tt.w, ttt.w, ...
DefaultSource(i) == [k \in 1..i |-> "t"] \o <<".", "w">>

\* name.replace(/\.[^/.]+$/, ""): a final dot followed by at least one
\* character, none of them a slash or a dot, is removed with what follows.
stripExtension(name) ==
    LET dots == {k \in 1..Len(name) : name[k] = "."}
    IN IF dots = {} THEN name
       ELSE LET last == CHOOSE k \in dots : \A m \in dots : k >= m
            IN IF last < Len(name)
                  /\ \A k \in (last + 1)..Len(name) : name[k] # "/"
               THEN SubSeq(name, 1, last - 1)
               ELSE name

\* fileName: name.replace(/\.[^/.]+$/, "") + ".mp3"
fileName(name) == stripExtension(name) \o DotMp3

\* The files of the JSZip object after zip.file(t.fileName, t.blob) for
\* each track: one file per name, a later call replacing the file an earlier
\* call added under the same name.
zipFiles(entries) == {fileName(fileNames[entries[k]]) : k \in 1..Len(entries)}

\* ---- BatchProcessor --------------------------------------------------------
\* The ceiling the admission loop compares the slot counter with.
Ceiling ==
    CASE variant = "full" -> MAX_ACTIVE_RENDER_CONTEXTS
      [] variant = "early" -> HARD_LIMIT_AUDIO_CONTEXTS
      [] OTHER -> config.concurrency

\* Reading the first element without removing it.
ShiftPeek(q) == q

\* this.queue.shift(): the queue without its first element.
Shift(q) == Tail(q)

\* Taking the most recently listed item instead of the oldest one.
FrontLast(q) == q[Len(q)]

\* The value this.queue.shift() returns: the first element of the queue.
Front(q) == Head(q)

RECURSIVE Insert(_, _)
\* q, sorted, with x put at its place.
Insert(q, x) ==
    IF q = <<>> \/ x <= Head(q)
    THEN <<x>> \o q
    ELSE <<Head(q)>> \o Insert(Tail(q), x)

RECURSIVE EntriesInListOrder(_)
\* The tracks put into the archive in the order of the constructor's list.
EntriesInListOrder(tracks) ==
    IF tracks = <<>> THEN <<>>
    ELSE Insert(EntriesInListOrder(Tail(tracks)), Head(tracks))

\* this.results.forEach(t => zip.file(t.fileName, t.blob)): one entry per
\* track, in the order of this.results.
Entries(tracks) == tracks

\* BatchProcessor.finalize() / finish() up to its await on zip.generateAsync.
finalize(s) ==
    [s EXCEPT !.finalizing = @ + 1, !.archive = Entries(s.results)]

\* processSingleFile(file) up to its first await: the first onUpdate, then
\* the item is suspended on the decode.
Begin(s, i) ==
    LET s1 == onUpdate(s, i, FirstStatus[1], FirstStatus[2])
    IN [s1 EXCEPT !.pc[i] = "decode", !.runs[i] = @ + 1,
                  !.started = Append(@, i)]

\* An admission step that takes at most one item: if instead of while.
FillOne(s) ==
    IF s.active < Ceiling /\ s.queue # <<>>
    THEN Begin([s EXCEPT !.queue = Shift(@), !.active = @ + 1], Front(s.queue))
    ELSE s

\* The admission loop: while (active < ceiling && queue.length > 0).
RECURSIVE Fill(_)
Fill(s) ==
    IF s.active < Ceiling /\ s.queue # <<>>
    THEN LET file == Front(s.queue)
         IN Fill(Begin([s EXCEPT !.queue = Shift(@), !.active = @ + 1], file))
    ELSE s

\* The completion test that follows the loop in the early-release scheduler.
EarlyDone(s) == s.queue = <<>> /\ s.processedCount = files

\* BatchProcessor.scheduler() / next().
scheduler(s) ==
    LET t == Fill(s)
    IN IF variant = "early" /\ EarlyDone(t) THEN finalize(t) ELSE t

\* The entry the catch block pushes to this.errors: the item's name with
\* the message of the exception (here the await it was raised at); the
\* early-release revision pushes the message alone.
ErrorEntry(s, i) ==
    IF variant = "early" THEN s.pc[i] ELSE [name |-> i, msg |-> s.pc[i]]

\* A catch block that reports the error status but forgets errors.push.
catchNoPush(s, i) ==
    LET s1 == onUpdate(s, i, "error", 0)
        s2 == [s1 EXCEPT !.pc[i] = "done"]
    IN IF variant = "early"
       THEN scheduler([s2 EXCEPT !.active = @ - 1])
       ELSE s2

\* A catch block that gives up on the rest of the batch: it drops the queue.
catchAbort(s, i) ==
    LET s1 == onUpdate([s EXCEPT !.errors = Append(@, ErrorEntry(s, i))],
                       i, "error", 0)
        s2 == [s1 EXCEPT !.pc[i] = "done", !.queue = <<>>]
    IN IF variant = "early"
       THEN scheduler([s2 EXCEPT !.active = @ - 1])
       ELSE s2

\* The catch block of processSingleFile / processFile.
catch(s, i) ==
    LET s1 == onUpdate([s EXCEPT !.errors = Append(@, ErrorEntry(s, i))],
                       i, "error", 0)
        s2 == [s1 EXCEPT !.pc[i] = "done"]
    IN IF variant = "early"
       THEN scheduler([s2 EXCEPT !.active = @ - 1])
       ELSE s2

\* A completion test that forgets the active-pipeline count.
AllDoneQueueOnly(s) == s.queue = <<>>

\* The test of the .finally handler that follows the slot release.
AllDone(s) == s.queue = <<>> /\ s.active = 0

\* What runs when the item's async function returns: the .finally handler
\* of scheduler()/next(), or the finally block of the early-release revision.
settle(s) ==
    CASE variant = "full" ->
           LET s1 == [s EXCEPT !.active = @ - 1]
           IN IF AllDone(s1) THEN finalize(s1) ELSE scheduler(s1)
      [] variant = "early" ->
           LET s1 == [s EXCEPT !.processedCount = @ + 1]
           IN IF s1.processedCount = files THEN finalize(s1) ELSE s1
      [] OTHER ->
           LET s1 == scheduler([s EXCEPT !.active = @ - 1])
           IN IF AllDone(s1) THEN finalize(s1) ELSE s1

\* A pipeline that swallows the exception and reports the item completed.
failSwallowed(s, i) ==
    LET s1 == onUpdate(s, i, "completed", 100)
    IN settle([s1 EXCEPT !.pc[i] = "done"])

\* An exception inside the try block: catch, then the function returns.
fail(s, i) == settle(catch(s, i))

\* The success tail of the try block: results.push, the last onUpdate.
complete(s, i) ==
    LET s1 == onUpdate([s EXCEPT !.results = Append(@, i)], i, "completed", 100)
    IN settle([s1 EXCEPT !.pc[i] = "done", !.finished = Append(@, i)])

\* The continuation of the decode await: the second onUpdate, then the
\* OfflineAudioContext is built with length ceil(duration / playbackRate *
\* sampleRate), which the constructor rejects when it is not positive.
afterDecode(s, i) ==
    LET s1 == onUpdate(s, i, SecondStatus[1], SecondStatus[2])
    IN IF config.playbackRate <= 0
       THEN fail(s1, i)
       ELSE [s1 EXCEPT !.pc[i] = "render"]

\* A continuation that reports encoding before trimming.
afterRenderSwapped(s, i, thrown) ==
    LET s0 == IF variant = "early"
              THEN scheduler([s EXCEPT !.active = @ - 1])
              ELSE s
        s1 == onUpdate(s0, i, "encoding", EncodingProgress)
        s2 == IF variant = "legacy" THEN s1
              ELSE onUpdate(s1, i, "trimming", 60)
    IN CASE thrown = "trim" -> fail(s1, i)
         [] thrown = "quantize" -> fail(s2, i)
         [] OTHER -> encode([s2 EXCEPT !.pc[i] = "encode"], i)

\* The continuation of the startRendering await up to the encode await;
\* thrown names the step that throws on the way ("none", "trim", "quantize").
afterRender(s, i, thrown) ==
    LET s0 == IF variant = "early"
              THEN scheduler([s EXCEPT !.active = @ - 1])
              ELSE s
        s1 == IF variant = "legacy" THEN s0
              ELSE onUpdate(s0, i, "trimming", 60)
        s2 == onUpdate(s1, i, "encoding", EncodingProgress)
    IN CASE thrown = "trim" -> fail(s1, i)
         [] thrown = "quantize" -> fail(s2, i)
         [] OTHER -> encode([s2 EXCEPT !.pc[i] = "encode"], i)

\* The ProcessReport built by finalize() / finish() after generateAsync.
Report(s) ==
    CASE variant = "full" ->
           [totalFiles |-> Len(s.queue) + Len(s.results) + Len(s.errors),
            successCount |-> Len(s.results),
            errorCount |-> Len(s.errors)]
      [] variant = "early" ->
           [totalFiles |-> files,
            successCount |-> Len(s.results),
            errorCount |-> Len(s.errors)]
      [] OTHER ->
           [totalFiles |-> Len(s.results) + Len(s.errors),
            successCount |-> Len(s.results),
            errorCount |-> Len(s.errors),
            errors |-> s.errors]

RECURSIVE Iota(_)
\* [...files]: the items in the order of the constructor's list.
Iota(n) == IF n = 0 THEN <<>> ELSE Append(Iota(n - 1), n)

\* ---- the state after construction --------------------------------------
Init ==
    /\ variant \in Variants
    /\ files \in 0..MaxFiles
    /\ fileNames = [i \in Items |-> DefaultSource(i)]
    /\ config \in [playbackRate : PlaybackRates,
                   soundOptimization : BOOLEAN,
                   concurrency : 0..MaxConcurrency]
    /\ queue = Iota(files)
    /\ active = 0
    /\ results = <<>>
    /\ errors = <<>>
    /\ processedCount = 0
    /\ pc = [i \in Items |-> "idle"]
    /\ hist = [i \in Items |-> <<>>]
    /\ runs = [i \in Items |-> 0]
    /\ startCalls = 0
    /\ finalizing = 0
    /\ completeCalls = 0
    /\ report = [totalFiles |-> 0, successCount |-> 0, errorCount |-> 0]
    /\ wstate = [w \in Workers |-> "init"]
    /\ wtask = [w \in Workers |-> 0]
    /\ workers = <<>>
    /\ pqueue = <<>>
    /\ tasks = {}
    /\ pactive = 0
    /\ threw = {}
    /\ started = <<>>
    /\ finished = <<>>
    /\ isProcessing = FALSE
    /\ ui = [i \in Items |-> <<"idle", 0>>]
    /\ uiMounted = FALSE
    /\ uiLoop = "off"
    /\ poolRev = "unguarded"
    /\ created = maxWorkers
    /\ inits = 1
    /\ nextTask = 0
    /\ readied = {}
    /\ settled = <<>>
    /\ zipFileName = <<"M", "i", "x">>
    /\ zipName = <<>>
    /\ archive = <<>>
    /\ PureIdle

Fixed ==
    UNCHANGED <<variant, files, fileNames, config, poolRev, inits, nextTask, zipFileName,
                pureVars>>

\* ---- the App's throttled status channel -----------------------------------
uiVars == <<isProcessing, ui, uiMounted, uiLoop>>

\* fileStatusRef.current.get(id): runBatch stores the item's current state,
\* the progress observer overwrites status and progress on every call.
Ref(i) == IF hist[i] = <<>> THEN <<"idle", 0>> ELSE hist[i][Len(hist[i])]

\* setFiles(prev => prev.map(...)): every item whose stored update differs
\* takes it.
Merged == [i \in Items |-> Ref(i)]

\* A completion observer that leaves the rendered list as it is.
ForceFinalSkipped == ui

\* The last setFiles of the completion observer.
ForceFinal == Merged

\* ---- actions -------------------------------------------------------------
\* BatchProcessor.start()
Start ==
    /\ startCalls < MaxStarts
    /\ startCalls' = startCalls + 1
    /\ IF variant = "legacy" /\ queue = <<>>
       THEN Apply(St)
       ELSE Apply(scheduler(St))
    /\ isProcessing' = IF startCalls = 0 /\ files > 0 THEN TRUE ELSE isProcessing
    /\ UNCHANGED <<completeCalls, report, threw, ui, uiMounted, uiLoop,
                   zipName>>
    /\ Fixed

\* The decode await of item i settles (arrayBuffer, decodeAudioData, close).
DecodeDone(i, ok) ==
    /\ pc[i] = "decode"
    /\ Apply(IF ok THEN afterDecode(St, i) ELSE fail(St, i))
    /\ threw' = IF ok /\ config.playbackRate > 0 THEN threw ELSE threw \cup {i}
    /\ UNCHANGED <<startCalls, completeCalls, report>>
    /\ UNCHANGED <<uiVars, zipName>>
    /\ Fixed

\* The render await of item i settles; outcome names the step that throws,
\* if any: the render itself, smartTrim, or the quantization.
RenderDone(i, outcome) ==
    /\ pc[i] = "render"
    /\ outcome = "trim" => (config.soundOptimization /\ variant # "legacy")
    /\ Apply(IF outcome = "render" THEN fail(St, i)
             ELSE afterRender(St, i, outcome))
    /\ threw' = IF outcome = "none" THEN threw ELSE threw \cup {i}
    /\ UNCHANGED <<startCalls, completeCalls, report>>
    /\ UNCHANGED <<uiVars, zipName>>
    /\ Fixed

\* A pool worker answers the init message with { cmd: 'ready' }.
WorkerReady(w) ==
    /\ wstate[w] = "init"
    /\ Apply(handler(St, w, "ready"))
    /\ UNCHANGED <<startCalls, completeCalls, report, threw>>
    /\ UNCHANGED <<uiVars, zipName>>
    /\ Fixed

\* A pool worker posts 'done' or 'error' for its task; the handler settles
\* the request and the awaiting pipeline continues.
WorkerDone(w, cmd) ==
    /\ wstate[w] = "busy"
    /\ LET id == wtask[w]
           s1 == handler(St, w, cmd)
       IN Apply(IF cmd = "done" THEN complete(s1, id) ELSE fail(s1, id))
    /\ threw' = IF cmd = "done" THEN threw ELSE threw \cup {wtask[w]}
    /\ UNCHANGED <<startCalls, completeCalls, report>>
    /\ UNCHANGED <<uiVars, zipName>>
    /\ Fixed

\* zip.generateAsync resolves inside finalize(): onComplete is invoked; the
\* App's completion observer stops the UI loop and forces a last update.
FinalizeDone ==
    /\ finalizing > 0
    /\ finalizing' = finalizing - 1
    /\ completeCalls' = completeCalls + 1
    /\ report' = Report(St)
    /\ isProcessing' = FALSE
    /\ ui' = ForceFinal
    /\ zipName' = IF variant = "legacy" THEN zipName ELSE zipNameOf(zipFileName)
    /\ UNCHANGED <<uiMounted, uiLoop>>
    /\ UNCHANGED <<queue, active, results, errors, processedCount, pc, hist,
                   runs, startCalls, wstate, wtask, workers, pqueue, tasks,
                   pactive, threw, started, finished, created, readied,
                   settled, archive>>
    /\ Fixed

\* The effect of isProcessing = true runs after the render: loop() merges
\* the stored updates and requests an animation frame.
UiEffect ==
    /\ isProcessing /\ ~uiMounted
    /\ uiMounted' = TRUE
    /\ ui' = Merged
    /\ uiLoop' = "raf"
    /\ UNCHANGED <<batchVars, isProcessing>>
    /\ UNCHANGED zipName
    /\ Fixed

\* The effect's cleanup after isProcessing became false: it cancels the
\* animation frame whose id uiLoopRef holds.
UiCleanup ==
    /\ ~isProcessing /\ uiMounted
    /\ uiMounted' = FALSE
    /\ uiLoop' = IF uiLoop = "raf" THEN "off" ELSE uiLoop
    /\ UNCHANGED <<batchVars, isProcessing, ui>>
    /\ UNCHANGED zipName
    /\ Fixed

\* The animation frame fires: setTimeout(loop, 100).
UiFrame ==
    /\ uiLoop = "raf"
    /\ uiLoop' = "timer"
    /\ UNCHANGED <<batchVars, isProcessing, ui, uiMounted>>
    /\ UNCHANGED zipName
    /\ Fixed

\* The timer fires: loop() merges the stored updates and requests the next
\* animation frame.
UiTick ==
    /\ uiLoop = "timer"
    /\ ui' = Merged
    /\ uiLoop' = "raf"
    /\ UNCHANGED <<batchVars, isProcessing, uiMounted>>
    /\ UNCHANGED zipName
    /\ Fixed

Next ==
    \/ Start
    \/ \E i \in Items, ok \in BOOLEAN : DecodeDone(i, ok)
    \/ \E i \in Items, outcome \in {"none", "render", "trim", "quantize"} :
          RenderDone(i, outcome)
    \/ \E w \in Workers : WorkerReady(w)
    \/ \E w \in Workers, cmd \in {"done", "error"} : WorkerDone(w, cmd)
    \/ FinalizeDone

Spec == Init /\ [][Next]_vars

\* The engine driven by the App with the throttled status channel.
UiInit == Init /\ files \in 1..MaxLiveFiles

UiNext == Next \/ UiEffect \/ UiCleanup \/ UiFrame \/ UiTick

UiSpec == UiInit /\ [][UiNext]_vars

\* Every pending await settles and every posted worker message is handled:
\* the event loop keeps running and the collaborators answer.
Fairness ==
    /\ WF_vars(\E i \in Items, ok \in BOOLEAN : DecodeDone(i, ok))
    /\ WF_vars(\E i \in Items,
                  outcome \in {"none", "render", "trim", "quantize"} :
                  RenderDone(i, outcome))
    /\ WF_vars(\E w \in Workers : WorkerReady(w))
    /\ WF_vars(\E w \in Workers, cmd \in {"done", "error"} : WorkerDone(w, cmd))
    /\ WF_vars(FinalizeDone)

\* The runs the liveness properties are about: a non-empty item list and a
\* positive ceiling.
LiveInit ==
    /\ Init
    /\ files \in 1..MaxLiveFiles
    /\ Ceiling > 0

FairSpec == LiveInit /\ [][Next]_vars /\ Fairness

\* ---- a batch larger than the ceiling --------------------------------------
\* The early-release BatchProcessor constructed with more items than
\* HARD_LIMIT_AUDIO_CONTEXTS.
CrowdInit ==
    /\ variant = "early"
    /\ files = HARD_LIMIT_AUDIO_CONTEXTS + MaxFiles
    /\ fileNames = [i \in Items |-> DefaultSource(i)]
    /\ config \in [playbackRate : {1},
                   soundOptimization : BOOLEAN,
                   concurrency : {1}]
    /\ queue = Iota(files)
    /\ active = 0
    /\ results = <<>>
    /\ errors = <<>>
    /\ processedCount = 0
    /\ pc = [i \in Items |-> "idle"]
    /\ hist = [i \in Items |-> <<>>]
    /\ runs = [i \in Items |-> 0]
    /\ startCalls = 0
    /\ finalizing = 0
    /\ completeCalls = 0
    /\ report = [totalFiles |-> 0, successCount |-> 0, errorCount |-> 0]
    /\ wstate = [w \in Workers |-> "init"]
    /\ wtask = [w \in Workers |-> 0]
    /\ workers = <<>>
    /\ pqueue = <<>>
    /\ tasks = {}
    /\ pactive = 0
    /\ threw = {}
    /\ started = <<>>
    /\ finished = <<>>
    /\ isProcessing = FALSE
    /\ ui = [i \in Items |-> <<"idle", 0>>]
    /\ uiMounted = FALSE
    /\ uiLoop = "off"
    /\ poolRev = "unguarded"
    /\ created = maxWorkers
    /\ inits = 1
    /\ nextTask = 0
    /\ readied = {}
    /\ settled = <<>>
    /\ zipFileName = <<"M", "i", "x">>
    /\ zipName = <<>>
    /\ archive = <<>>
    /\ PureIdle

\* The awaits of the first MaxFiles items settle; the decodes of the other
\* items stay pending.
CrowdNext ==
    \/ Start
    \/ \E i \in 1..MaxFiles, ok \in BOOLEAN : DecodeDone(i, ok)
    \/ \E i \in 1..MaxFiles, outcome \in {"none", "render", "trim", "quantize"} :
          RenderDone(i, outcome)
    \/ \E w \in Workers : WorkerReady(w)
    \/ \E w \in Workers, cmd \in {"done", "error"} : WorkerDone(w, cmd)

CrowdSpec == CrowdInit /\ [][CrowdNext]_vars

\* ---- a batch of named files -------------------------------------------------
\* The BatchProcessor of audioProcessor.ts constructed with MaxFiles files
\* of any source names.
ZipInit ==
    /\ variant = "full"
    /\ files = MaxFiles
    /\ fileNames \in [Items -> SourceNames]
    /\ config = [playbackRate |-> 1, soundOptimization |-> TRUE,
                 concurrency |-> 1]
    /\ queue = Iota(files)
    /\ active = 0
    /\ results = <<>>
    /\ errors = <<>>
    /\ processedCount = 0
    /\ pc = [i \in Items |-> "idle"]
    /\ hist = [i \in Items |-> <<>>]
    /\ runs = [i \in Items |-> 0]
    /\ startCalls = 0
    /\ finalizing = 0
    /\ completeCalls = 0
    /\ report = [totalFiles |-> 0, successCount |-> 0, errorCount |-> 0]
    /\ wstate = [w \in Workers |-> "init"]
    /\ wtask = [w \in Workers |-> 0]
    /\ workers = <<>>
    /\ pqueue = <<>>
    /\ tasks = {}
    /\ pactive = 0
    /\ threw = {}
    /\ started = <<>>
    /\ finished = <<>>
    /\ isProcessing = FALSE
    /\ ui = [i \in Items |-> <<"idle", 0>>]
    /\ uiMounted = FALSE
    /\ uiLoop = "off"
    /\ poolRev = "unguarded"
    /\ created = maxWorkers
    /\ inits = 1
    /\ nextTask = 0
    /\ readied = {}
    /\ settled = <<>>
    /\ zipFileName = <<"M", "i", "x">>
    /\ zipName = <<>>
    /\ archive = <<>>
    /\ PureIdle

ZipSpec == ZipInit /\ [][Next]_vars

\* ---- the shared pool on its own ------------------------------------------
\* mp3Pool after module load: no init() yet, no worker constructed, no
\* BatchProcessor items; its clients are modelled by the calls they make.
PoolInit ==
    /\ variant = "full"
    /\ files = 0
    /\ fileNames = <<>>
    /\ config = [playbackRate |-> 1, soundOptimization |-> FALSE,
                 concurrency |-> 1]
    /\ queue = <<>>
    /\ active = 0
    /\ results = <<>>
    /\ errors = <<>>
    /\ processedCount = 0
    /\ pc = <<>>
    /\ hist = <<>>
    /\ runs = <<>>
    /\ startCalls = 0
    /\ finalizing = 0
    /\ completeCalls = 0
    /\ report = [totalFiles |-> 0, successCount |-> 0, errorCount |-> 0]
    /\ threw = {}
    /\ started = <<>>
    /\ finished = <<>>
    /\ isProcessing = FALSE
    /\ ui = <<>>
    /\ uiMounted = FALSE
    /\ uiLoop = "off"
    /\ poolRev \in PoolRevs
    /\ created = 0
    /\ inits = 0
    /\ nextTask = 0
    /\ wstate = [w \in PoolWorkers |-> "none"]
    /\ wtask = [w \in PoolWorkers |-> 0]
    /\ workers = <<>>
    /\ pqueue = <<>>
    /\ tasks = {}
    /\ pactive = 0
    /\ readied = {}
    /\ settled = <<>>
    /\ zipFileName = <<"M", "i", "x">>
    /\ zipName = <<>>
    /\ archive = <<>>
    /\ PureIdle

PoolFixed ==
    UNCHANGED <<variant, files, fileNames, config, poolRev, startCalls, completeCalls,
                report, threw, uiVars, zipFileName, zipName, pureVars>>

\* A BatchProcessor constructor calls mp3Pool.init().
PoolInitCall ==
    /\ inits < MaxInits
    /\ inits' = inits + 1
    /\ Apply(init(St))
    /\ UNCHANGED nextTask
    /\ PoolFixed

\* A client calls mp3Pool.encode(id, data) with a fresh id.
PoolEncode ==
    /\ nextTask < MaxTasks
    /\ nextTask' = nextTask + 1
    /\ Apply(encode(St, nextTask + 1))
    /\ UNCHANGED inits
    /\ PoolFixed

\* A worker answers the init message with { cmd: 'ready' }.
PoolReady(w) ==
    /\ wstate[w] = "init"
    /\ Apply(handler(St, w, "ready"))
    /\ UNCHANGED <<inits, nextTask>>
    /\ PoolFixed

\* A worker posts 'done' or 'error' with the id of the task it was sent.
PoolDone(w, cmd) ==
    /\ wstate[w] = "busy"
    /\ Apply(handler(St, w, cmd))
    /\ UNCHANGED <<inits, nextTask>>
    /\ PoolFixed

PoolNext ==
    \/ PoolInitCall
    \/ PoolEncode
    \/ \E w \in PoolWorkers : PoolReady(w)
    \/ \E w \in PoolWorkers, cmd \in {"done", "error"} : PoolDone(w, cmd)

PoolSpec == PoolInit /\ [][PoolNext]_vars

\* The messages of the workers keep being handled: a constructed worker
\* answers the init message and a worker that was sent a task posts 'done'
\* or 'error' for it.
PoolFairness ==
    /\ WF_vars(\E w \in PoolWorkers : PoolReady(w))
    /\ WF_vars(\E w \in PoolWorkers, cmd \in {"done", "error"} : PoolDone(w, cmd))

PoolFairSpec == PoolInit /\ [][PoolNext]_vars /\ PoolFairness

\* ---- the archive naming step on its own ------------------------------------
\* A processor with no items left to work on and any archive name in its
\* configuration; the two revisions that name the archive.
NameInit ==
    /\ variant \in {"full", "early"}
    /\ files = 0
    /\ fileNames = <<>>
    /\ config = [playbackRate |-> 1, soundOptimization |-> FALSE,
                 concurrency |-> 1]
    /\ queue = <<>>
    /\ active = 0
    /\ results = <<>>
    /\ errors = <<>>
    /\ processedCount = 0
    /\ pc = <<>>
    /\ hist = <<>>
    /\ runs = <<>>
    /\ startCalls = 0
    /\ finalizing = 0
    /\ completeCalls = 0
    /\ report = [totalFiles |-> 0, successCount |-> 0, errorCount |-> 0]
    /\ threw = {}
    /\ started = <<>>
    /\ finished = <<>>
    /\ isProcessing = FALSE
    /\ ui = <<>>
    /\ uiMounted = FALSE
    /\ uiLoop = "off"
    /\ poolRev = "unguarded"
    /\ created = maxWorkers
    /\ inits = 1
    /\ nextTask = 0
    /\ wstate = [w \in Workers |-> "init"]
    /\ wtask = [w \in Workers |-> 0]
    /\ workers = <<>>
    /\ pqueue = <<>>
    /\ tasks = {}
    /\ pactive = 0
    /\ readied = {}
    /\ settled = <<>>
    /\ zipFileName \in Names
    /\ zipName = <<>>
    /\ archive = <<>>
    /\ PureIdle

\* The naming statements of finalize().
NameArchive ==
    /\ zipName = <<>>
    /\ zipName' = zipNameOf(zipFileName)
    /\ UNCHANGED <<batchVars, uiVars, zipFileName>>
    /\ Fixed

\* The name produced is configured as the archive name of another run.
NameAgain ==
    /\ zipName # <<>>
    /\ zipFileName # zipName
    /\ zipFileName' = zipName
    /\ zipName' = <<>>
    /\ UNCHANGED <<batchVars, uiVars, variant, files, fileNames, config, poolRev, inits,
                   nextTask, pureVars>>

NameNext == NameArchive \/ NameAgain

NameSpec == NameInit /\ [][NameNext]_vars

\* ---- the signal-processing functions on their own ---------------------------
\* An engine with nothing to do: no items, the pool as the constructor left
\* it, the App idle.
EngineIdle ==
    /\ variant = "full"
    /\ files = 0
    /\ fileNames = <<>>
    /\ config = [playbackRate |-> 1, soundOptimization |-> TRUE,
                 concurrency |-> 1]
    /\ queue = <<>>
    /\ active = 0
    /\ results = <<>>
    /\ errors = <<>>
    /\ processedCount = 0
    /\ pc = <<>>
    /\ hist = <<>>
    /\ runs = <<>>
    /\ startCalls = 0
    /\ finalizing = 0
    /\ completeCalls = 0
    /\ report = [totalFiles |-> 0, successCount |-> 0, errorCount |-> 0]
    /\ threw = {}
    /\ started = <<>>
    /\ finished = <<>>
    /\ isProcessing = FALSE
    /\ ui = <<>>
    /\ uiMounted = FALSE
    /\ uiLoop = "off"
    /\ poolRev = "unguarded"
    /\ created = maxWorkers
    /\ inits = 1
    /\ nextTask = 0
    /\ wstate = [w \in Workers |-> "init"]
    /\ wtask = [w \in Workers |-> 0]
    /\ workers = <<>>
    /\ pqueue = <<>>
    /\ tasks = {}
    /\ pactive = 0
    /\ readied = {}
    /\ settled = <<>>
    /\ zipFileName = <<"M", "i", "x">>
    /\ zipName = <<>>
    /\ archive = <<>>

\* The trimmer applied to any buffer, in each of its revisions.
TrimInit ==
    /\ EngineIdle
    /\ QuantIdle
    /\ ResolveIdle
    /\ trimRev \in TrimRevs
    /\ buffer \in Buffers
    /\ trimResult = <<>>

\* if (config.soundOptimization) finalBuffer = smartTrim(renderedBuffer)
Trim ==
    /\ trimResult = <<>>
    /\ trimResult' = <<smartTrim(buffer)>>
    /\ UNCHANGED <<engineVars, trimRev, buffer, quantRev, float32, int16, policy, request, source>>

TrimNext == Trim

TrimSpec == TrimInit /\ [][TrimNext]_vars

\* The quantizer applied to any sample, in both revisions.
QuantInit ==
    /\ EngineIdle
    /\ TrimIdle
    /\ ResolveIdle
    /\ quantRev \in QuantRevs
    /\ float32 \in {<<s>> : s \in Samples}
    /\ int16 = <<>>

\* convertBuffer converts the next element.
Quantize ==
    /\ Len(int16) < Len(float32)
    /\ int16' = Append(int16, convertBuffer(float32[Len(int16) + 1]))
    /\ UNCHANGED <<engineVars, trimRev, buffer, trimResult, quantRev, float32, policy, request, source>>

\* The int16 produced is decoded into a Float32Array element again.
Decode ==
    /\ Len(float32) = 1
    /\ Len(int16) = 1
    /\ float32' = Append(float32, Decoded(int16[1]))
    /\ UNCHANGED <<engineVars, trimRev, buffer, trimResult, quantRev, int16, policy, request, source>>

QuantNext == Quantize \/ Decode

QuantSpec == QuantInit /\ [][QuantNext]_vars

\* The resolver applied to any slider setting, under both policies.
ResolveInit ==
    /\ EngineIdle
    /\ TrimIdle
    /\ QuantIdle
    /\ policy \in Policies
    /\ request \in Requests
    /\ source = <<>>

\* processSingleFile computes the parameters and sets them on the source.
Resolve ==
    /\ source = <<>>
    /\ source' = <<resolve(request)>>
    /\ UNCHANGED <<engineVars, trimRev, buffer, trimResult, quantRev, float32, int16,
                   policy, request>>

ResolveNext == Resolve

ResolveSpec == ResolveInit /\ [][ResolveNext]_vars

\* ---- observations used by the properties -------------------------------
\* AudioFile.status as last reported to the progress observer.
Status(i) == IF hist[i] = <<>> THEN "idle" ELSE hist[i][Len(hist[i])][1]

\* The statuses reported for item i, in order.
Statuses(i) == [k \in 1..Len(hist[i]) |-> hist[i][k][1]]

\* Items whose pipeline has been started and has not returned yet.
Running == {i \in Items : pc[i] \in {"decode", "render", "encode"}}

\* Items that hold the render resource: decoding or rendering.
Rendering == {i \in Items : pc[i] \in {"decode", "render"}}

Range(q) == {q[k] : k \in 1..Len(q)}

\* A configuration with a positive playbackRate and a positive concurrency.
ValidConfig == config.playbackRate > 0 /\ config.concurrency > 0

\* ---- C1 ------------------------------------------------------------------
\* C1: for a valid configuration (positive config.concurrency), the number
\* of items whose pipeline has been started and has not finished never
\* exceeds config.concurrency.
C1_CeilingRespected ==
    ValidConfig => Cardinality(Running) <= config.concurrency

\* ---- C2 ------------------------------------------------------------------
\* C2: whenever onComplete has been invoked, its report satisfies
\* successCount + errorCount = totalFiles and totalFiles is the number of
\* items the processor was constructed with.
C2_ReportAddsUp ==
    completeCalls > 0 =>
        /\ report.successCount + report.errorCount = report.totalFiles
        /\ report.totalFiles = files

C2_Witness ==
    /\ completeCalls > 0
    /\ report.successCount > 0
    /\ report.errorCount > 0

\* ---- C3 ------------------------------------------------------------------
\* C3: a throwing step of one item never aborts the batch: when onComplete
\* is invoked every item whose steps threw has status error, every other
\* item has status completed, and the report counts them so.
C3_FailureIsolated ==
    completeCalls > 0 =>
        /\ \A i \in Items :
              Status(i) = IF i \in threw THEN "error" ELSE "completed"
        /\ report.errorCount = Cardinality(threw)
        /\ report.successCount = files - Cardinality(threw)

\* The first item's decode throws and every other item completes: the
\* report counts one error and files - 1 successes.
C3_Witness ==
    /\ completeCalls > 0
    /\ files = MaxFiles
    /\ threw = {1}
    /\ Statuses(1) = <<FirstStatus[1], "error">>
    /\ \A i \in Items \ {1} : Status(i) = "completed"
    /\ report = [totalFiles |-> files, successCount |-> files - 1,
                 errorCount |-> 1]

\* ---- C4 ------------------------------------------------------------------
\* C4: finalize() is entered and onComplete is invoked only when the queue
\* is empty, no pipeline is running and every item is completed or error.
C4_CompleteOnlyWhenAllTerminal ==
    (finalizing > 0 \/ completeCalls > 0) =>
        /\ queue = <<>>
        /\ Running = {}
        /\ \A i \in Items : /\ pc[i] = "done"
                            /\ Status(i) \in {"completed", "error"}

C4_Witness ==
    /\ completeCalls > 0
    /\ files >= 2
    /\ variant \in {"full", "early"}
    /\ \E i \in Items : Status(i) = "completed"

StatusOrder == <<"decoding", "rendering", "trimming", "encoding", "completed">>

\* The same order when the conditional trimming is skipped.
StatusOrderNoTrim == <<"decoding", "rendering", "encoding", "completed">>

\* seq is a prefix of order, or a proper prefix of it followed by error.
FollowsOrder(seq, order) ==
    \/ /\ Len(seq) <= Len(order)
       /\ seq = SubSeq(order, 1, Len(seq))
    \/ /\ Len(seq) >= 1 /\ Len(seq) <= Len(order)
       /\ seq[Len(seq)] = "error"
       /\ SubSeq(seq, 1, Len(seq) - 1) = SubSeq(order, 1, Len(seq) - 1)

\* C6: the statuses reported for an item follow idle -> decoding ->
\* rendering -> trimming -> encoding -> completed without skipping (other
\* than trimming), repeating or reordering; error only follows a
\* non-terminal status and nothing follows completed or error.
C6_StatusOrder ==
    variant # "legacy" =>
        \A i \in Items : \/ FollowsOrder(Statuses(i), StatusOrder)
                         \/ FollowsOrder(Statuses(i), StatusOrderNoTrim)

C6_Witness ==
    /\ variant # "legacy"
    /\ \E i \in Items : Statuses(i) = StatusOrder
    /\ \E i \in Items : Statuses(i) = <<"decoding", "rendering", "trimming", "error">>

\* ---- C7 ------------------------------------------------------------------
\* C7: every item is dequeued and has its pipeline started at most once,
\* for any number of start() calls; a started item, in particular one that
\* ended in error, is never in the queue again.
C7_ProcessedOnce ==
    \A i \in Items :
        /\ runs[i] <= 1
        /\ Cardinality({k \in 1..Len(queue) : queue[k] = i}) <= 1
        /\ (runs[i] = 1 \/ Status(i) = "error") => i \notin Range(queue)

C7_Witness ==
    /\ startCalls = MaxStarts
    /\ completeCalls > 0
    /\ \E i \in Items : Status(i) = "error" /\ runs[i] = 1

\* ---- C8 ------------------------------------------------------------------
\* C8: in the revision the application constructs, the render slot of an
\* item is free as soon as its rendering step is over: the slot counter
\* counts at most the items that are decoding or rendering.
C8_SlotFreeAfterRender ==
    (variant = "full" /\ ValidConfig) => active <= Cardinality(Rendering)

\* ---- C9 ------------------------------------------------------------------
\* C9: with a non-positive playbackRate or concurrency no item leaves idle,
\* no pipeline is started and no per-item error is recorded.
C9_InvalidConfigRejected ==
    (config.playbackRate <= 0 \/ config.concurrency <= 0) =>
        /\ \A i \in Items : runs[i] = 0 /\ hist[i] = <<>>
        /\ errors = <<>>

\* ---- C10 -----------------------------------------------------------------
\* C10: start() on a processor constructed with no items does nothing:
\* finalize() is not entered and onComplete is not invoked, however often
\* start() is called.
C10_EmptyStartNoOp ==
    files = 0 => finalizing = 0 /\ completeCalls = 0

\* ---- C11 -----------------------------------------------------------------
\* C11: pipelines are started in the order of the constructor's list: the
\* k-th pipeline started is that of the k-th listed item, and the queue
\* holds the items not yet started, in list order; the order in which
\* items complete is not constrained by it.
C11_FifoAdmission ==
    /\ started = Iota(Len(started))
    /\ queue = SubSeq(Iota(files), Len(started) + 1, files)

\* Both items were started in list order and the second completed first.
C11_Witness ==
    /\ started = <<1, 2>>
    /\ finished = <<2, 1>>

C13_ReportNamesFailures ==
    (ValidConfig /\ completeCalls > 0) =>
        \A i \in Items :
            Status(i) = "error" =>
                /\ "errors" \in DOMAIN report
                /\ \E k \in 1..Len(report.errors) :
                      /\ report.errors[k].name = i
                      /\ report.errors[k].msg \in {"decode", "render", "encode"}

\* ---- C14 -----------------------------------------------------------------
\* C14: an item is reported trimming only when config.soundOptimization is
\* true; when it is false the status reported after rendering is encoding.
C14_TrimmingConditional ==
    (variant # "legacy" /\ ValidConfig /\ ~config.soundOptimization) =>
        \A i \in Items :
            \A k \in 1..Len(hist[i]) :
                /\ hist[i][k][1] # "trimming"
                /\ (k > 1 /\ hist[i][k - 1][1] = "rendering")
                      => hist[i][k][1] \in {"encoding", "error"}

\* ---- C15 -----------------------------------------------------------------
\* C15: a worker is sent a task only after its 'ready' message has been
\* handled: busy workers and workers on the free list have been readied,
\* and while no worker has been readied every submitted task waits in the
\* queue.
C15_DispatchOnlyToReady ==
    /\ \A w \in DOMAIN wstate : wstate[w] = "busy" => w \in readied
    /\ Range(workers) \subseteq readied
    /\ readied = {} =>
          /\ pactive = 0
          /\ tasks = Range(pqueue)
          /\ Len(pqueue) = nextTask

\* Two tasks were submitted before any worker was ready; the first went to
\* the worker once its ready message was handled, the second still waits.
C15_Witness ==
    /\ nextTask = 2
    /\ Cardinality(readied) = 1
    /\ \E w \in readied : wstate[w] = "busy" /\ wtask[w] = 1
    /\ pqueue = <<2>>
    /\ settled = <<>>

\* ---- C16 -----------------------------------------------------------------
\* C16: whatever the number of init() calls on the shared pool and however
\* they interleave with worker readiness and task dispatch, the pool never
\* constructs more than maxWorkers workers.
C16_WorkersBounded == created <= maxWorkers

\* ---- C17 -----------------------------------------------------------------
\* No request is settled twice and a settled request is not pending.
C17_State ==
    /\ \A a, b \in 1..Len(settled) : settled[a][1] = settled[b][1] => a = b
    /\ \A a \in 1..Len(settled) : settled[a][1] \notin tasks

\* What one completion signal of worker w for its task does.
C17_Step ==
    \A w \in PoolWorkers, cmd \in {"done", "error"} :
        PoolDone(w, cmd) =>
            LET id == wtask[w]
            IN /\ id \in tasks
               /\ settled' = Append(settled,
                       <<id, IF cmd = "done" THEN "resolve" ELSE "reject">>)
               /\ tasks' = tasks \ {id}
               /\ \/ workers' = Append(workers, w)
                  \/ /\ pqueue # <<>>
                     /\ workers' = workers
                     /\ wstate'[w] = "busy" /\ wtask'[w] = Head(pqueue)

\* C17: a completion signal settles the pending request with the same task
\* id, resolving it on 'done' and rejecting it on 'error', exactly once; it
\* removes that request and no other from the pending table and returns
\* the worker to the free list (from which the next queued task may take
\* it at once).
C17_SettledOnce == []C17_State /\ [][C17_Step]_vars

\* Two tasks were in flight at once; the second failed before the first
\* succeeded, and both workers are back on the free list.
C17_Witness ==
    /\ settled = <<<<2, "reject">>, <<1, "resolve">>>>
    /\ tasks = {}
    /\ Len(workers) = 2

\* ---- C18 -----------------------------------------------------------------
\* Items whose encode request the pool rejected.
Rejected == {i \in Items : \E k \in 1..Len(settled) : settled[k] = <<i, "reject">>}

\* C18: an encode request rejected by the pool fails exactly the item that
\* submitted it: that item ends in error right after encoding, has one
\* entry in the error list (and so counts in errorCount) and no entry in
\* the results, and an item none of whose steps failed is never reported
\* error and has no entry in the error list.
C18_EncodeFailureIsolated ==
    /\ \A i \in Rejected :
          /\ i \in threw
          /\ Len(hist[i]) >= 2
          /\ hist[i][Len(hist[i])][1] = "error"
          /\ hist[i][Len(hist[i]) - 1][1] = "encoding"
          /\ i \notin Range(results)
          /\ i \notin Range(finished)
          /\ variant # "early" =>
                Cardinality({k \in 1..Len(errors) : errors[k].name = i}) = 1
    /\ Len(errors) = Cardinality(threw)
    /\ completeCalls > 0 => report.errorCount = Len(errors)
    /\ \A j \in Items \ threw :
          /\ \A k \in 1..Len(hist[j]) : hist[j][k][1] # "error"
          /\ variant # "early" =>
                \A k \in 1..Len(errors) : errors[k].name # j

\* The first item's encode request was rejected, the second item completed
\* and the report counts one of each.
C18_Witness ==
    /\ files = 2
    /\ Rejected = {1}
    /\ threw = {1}
    /\ Status(2) = "completed"
    /\ completeCalls > 0
    /\ report.errorCount = 1 /\ report.successCount = 1

\* ---- C19 -----------------------------------------------------------------
\* C19: the archive name ends with .zip in some letter case; the extension
\* is appended only when the trimmed name lacks it; Mix gives Mix.zip; an
\* empty or white-space name gives a default name longer than the bare
\* extension; and naming a produced name again returns it unchanged.
C19_ArchiveName ==
    zipName # <<>> =>
        /\ endsWithZip(toLowerCase(zipName))
        /\ endsWithZip(toLowerCase(trim(zipFileName))) =>
              zipName \in {trim(zipFileName), DefaultName}
        /\ ~endsWithZip(toLowerCase(trim(zipFileName))) =>
              zipName \in {trim(zipFileName) \o DotZip, DefaultName}
        /\ zipFileName = <<"M", "i", "x">> => zipName = <<"M", "i", "x">> \o DotZip
        /\ trim(zipFileName) = <<>> => (Len(zipName) > 4 /\ zipName # DotZip)
        /\ zipNameOf(zipName) = zipName

\* ---- C20 -----------------------------------------------------------------
\* C20: the archive's entries are the tracks in the order in which their
\* items were reported completed, whatever the order of the constructor's
\* list.
C20_ArchiveInFinishOrder ==
    /\ results = finished
    /\ (finalizing > 0 \/ completeCalls > 0) => archive = finished

\* The second item completed first and is the first entry of the archive.
C20_Witness ==
    /\ completeCalls > 0
    /\ started = <<1, 2>>
    /\ archive = <<2, 1>>

\* ---- C21 -----------------------------------------------------------------
\* C21: for a buffer whose samples are all above the threshold and for a
\* buffer whose samples are all at or below it, of any length, the trimmer
\* returns the buffer object it was given.
C21_TrimNoOp ==
    (trimResult # <<>> /\ (buffer.loud = 0 \/ buffer.lead + buffer.tail = 0)) =>
        /\ ~trimResult[1].fresh
        /\ trimResult[1].start = 0
        /\ trimResult[1].end = Length(buffer)

\* ---- C22 -----------------------------------------------------------------
\* C22: for a non-empty buffer the trimmer never returns an empty or
\* inverted range: a new buffer holds the samples start..end-1 with
\* 0 <= start < end <= length, and when end <= start or the trimmed length
\* equals the length the buffer it was given is returned.
C22_TrimRange ==
    (trimRev # "older" /\ trimResult # <<>> /\ Length(buffer) > 0) =>
        LET r == trimResult[1]
            start == ScanForward(buffer)
            end == ScanBackward(buffer, start)
        IN /\ 0 <= r.start /\ r.start < r.end /\ r.end <= Length(buffer)
           /\ r.fresh => (r.start = start /\ r.end = end)
           /\ (end <= start \/ end - start = Length(buffer)) =>
                 (~r.fresh /\ r.start = 0 /\ r.end = Length(buffer))

\* smartTrim cut silence off both ends of a buffer.
C22_Witness ==
    /\ trimRev = "smartTrim"
    /\ trimResult # <<>>
    /\ trimResult[1].fresh
    /\ trimResult[1].start > 0
    /\ trimResult[1].end < Length(buffer)

\* ---- C23 -----------------------------------------------------------------
\* C23: quantizing a sample, decoding the int16 back to a float and
\* quantizing again gives the same int16.
C23_QuantRoundTrip == Len(int16) = 2 => int16[2] = int16[1]

\* ---- C24 -----------------------------------------------------------------
\* q is the number s * k with its fraction dropped, for a sample s of
\* magnitude at most one; stated without forming the product.
TruncatedScale(s, q) ==
    LET unit == 2^(s.e - 15)
    IN IF s.neg
       THEN /\ q <= 0
            /\ (-q) * unit <= s.m
            /\ s.m < (-q) * unit + unit
       ELSE /\ q >= 0
            /\ s.m - q * unit >= (s.m + 32767) \div 32768
            /\ s.m - q * unit - unit <= (s.m - 1) \div 32768

\* C24: every sample, inside or outside [-1, 1], is converted to an integer
\* of -32768..32767 without wrap-around: -1 and below give -32768, +1 and
\* above give 32767, 0 gives 0, a negative sample is scaled by 32768 and a
\* non-negative one by 32767, the fraction dropped toward zero.
C24_QuantClamped ==
    \A i \in 1..Len(int16) :
        LET s == float32[i]
            q == int16[i]
        IN /\ q \in (-32768)..32767
           /\ s.kind = "num" =>
                 CASE s.m = 0 -> q = 0
                   [] AboveOne(s) \/ s = One(s.neg) ->
                        q = IF s.neg THEN -32768 ELSE 32767
                   [] OTHER -> TruncatedScale(s, q)

\* A sample below -1 was converted to -32768 and one above +1 to 32767.
C24_Witness ==
    /\ Len(int16) = 1
    /\ AboveOne(float32[1])
    /\ int16[1] = IF float32[1].neg THEN -32768 ELSE 32767

\* ---- C25 -----------------------------------------------------------------
\* |x - y| <= tol
Within(x, y, tol) == x - y <= tol /\ y - x <= tol

\* n / 1000 in fixed point.
Thousandths(n) == n * (Unit \div 1000) + ((n * (Unit % 1000)) \div 1000)

\* The setting pitchShift = 2, playbackRate = 1.2 has been resolved.
C25_Example ==
    /\ source # <<>>
    /\ request = [pitchShift |-> 2, playbackRate |-> 24]

\* C25: for pitchShift = 2 and speed 1.2 the implicit pitch change is about
\* 1.897 semitones and the detune about 10.3 cents, within 0.1.
C25_ResolverExample ==
    C25_Example =>
        /\ Within(source[1].implicit, Thousandths(1897), Unit \div 10)
        /\ Within(source[1].detune, (103 * Cent) \div 10, Cent \div 10)

\* C25, amended: for pitchShift = 2 and speed 1.2 the implicit pitch change
\* is 12 * log2(1.2), about 3.156 semitones, and the detune about -115.6
\* cents, within 0.1.
C25_ResolverExampleAmended ==
    C25_Example =>
        /\ Within(source[1].implicit, Thousandths(3156), Unit \div 10)
        /\ Within(source[1].detune, -((1156 * Cent) \div 10), Cent \div 10)

\* The example has been resolved, under either policy.
C25_Witness == C25_Example /\ source[1].detune < 0

\* ---- C26 -----------------------------------------------------------------
\* The resolution to which a speed is compared: 2^(-14).
SpeedTolerance == Unit \div 2^14

\* C26: under the speed-exact policy the detune is the correction in cents
\* and the speed the source plays at, playbackRate times 2^(detune/1200),
\* is the requested speed, for every pitch and speed setting.
C26_SpeedExact ==
    (source # <<>> /\ policy = "speedExact") =>
        /\ source[1].detune = detune(request)
        /\ Within(computedPlaybackRate(source[1]), finalRate(request), SpeedTolerance)

\* A setting whose correction is not zero has been resolved under the
\* speed-exact policy: the rate set on the source is not the requested one.
C26_Witness ==
    /\ source # <<>>
    /\ policy = "speedExact"
    /\ source[1].detune > 100 * Cent
    /\ ~Within(source[1].playbackRate, finalRate(request), SpeedTolerance)

\* ---- C27 -----------------------------------------------------------------
\* C27: in the early-release scheduler the number of admitted items whose
\* render step has not completed (decoding or rendering) never exceeds
\* HARD_LIMIT_AUDIO_CONTEXTS.
C27_RenderCeiling ==
    variant = "early" => Cardinality(Rendering) <= HARD_LIMIT_AUDIO_CONTEXTS

\* ---- C28 -----------------------------------------------------------------
\* C28: in the early-release scheduler activeContexts is the number of
\* items between admission and slot release (decoding or rendering), every
\* slot being released exactly once, and is never negative.
C28_SlotAccounting ==
    variant = "early" =>
        /\ active = Cardinality(Rendering)
        /\ active >= 0

\* ---- C29 -----------------------------------------------------------------
\* C29: onComplete is invoked at most once per BatchProcessor, however
\* often start() is called.
C29_CompleteOnce == completeCalls <= 1

\* ---- C30 -----------------------------------------------------------------
\* C30: once start() has been called, after start() and after the handling
\* of every item completion, the queue is not left non-empty while the slot
\* counter is below the ceiling.
C30_WorkConserving ==
    startCalls > 0 => (queue = <<>> \/ active >= Ceiling)

\* An item has completed and the slot it freed went to the next item of
\* the queue, under a ceiling of one.
C30_Witness ==
    /\ Ceiling = 1
    /\ files = 2
    /\ pc[1] = "done"
    /\ pc[2] = "decode"
    /\ active = 1

\* ---- C31 -----------------------------------------------------------------
\* C31: after the pool has handled any event (an encode request, a worker's
\* 'ready', 'done' or 'error'), the task queue and the free-worker list are
\* never both non-empty.
C31_Drained == pqueue = <<>> \/ workers = <<>>

\* A task waits in the queue while every worker that is ready is busy.
C31_Witness ==
    /\ pqueue # <<>>
    /\ workers = <<>>
    /\ pactive > 0

\* ---- C32 -----------------------------------------------------------------
\* The settlements recorded for request id.
Settlements(id) == {k \in 1..Len(settled) : settled[k][1] = id}

\* C32: every encode(id, data) request, the ids being distinct, is settled
\* (resolved or rejected) eventually once a worker has been constructed,
\* and never more than once.  Requests, workers and settlements are never
\* taken back, so "eventually settled" is "from some point on no request
\* made is without its settlement".
C32_EventuallySettled ==
    /\ <>[](created > 0 => \A id \in 1..nextTask : Settlements(id) # {})
    /\ [](\A id \in 1..MaxTasks : Cardinality(Settlements(id)) <= 1)

\* Every request the clients made has been settled, by the workers of one
\* init().
C32_Witness ==
    /\ nextTask = MaxTasks
    /\ tasks = {}
    /\ \A id \in 1..MaxTasks : Cardinality(Settlements(id)) = 1
    /\ created = maxWorkers

\* ---- C33 -----------------------------------------------------------------
\* How often worker w is on the free list.
FreeCount(w) == Cardinality({k \in 1..Len(workers) : workers[k] = w})

\* The workers that were sent a task and have not answered yet.
Busy == {w \in DOMAIN wstate : wstate[w] = "busy"}

\* C33: every worker that completed the handshake is either on the free
\* list exactly once or executing exactly one task, never both; the active
\* counter is the number of workers executing a task; free plus busy
\* workers never exceed the workers that completed the handshake.
C33_WorkerAccounting ==
    /\ \A w \in readied :
          \/ FreeCount(w) = 1 /\ w \notin Busy /\ wtask[w] = 0
          \/ FreeCount(w) = 0 /\ w \in Busy /\ wtask[w] # 0
    /\ \A w \in DOMAIN wstate : w \notin readied => FreeCount(w) = 0 /\ w \notin Busy
    /\ pactive = Cardinality(Busy)
    /\ Len(workers) + Cardinality(Busy) <= Cardinality(readied)

\* Every request has been made and settled and a worker that executed a
\* task is back on the free list.
C33_Witness ==
    /\ settled # <<>>
    /\ workers # <<>>
    /\ nextTask = MaxTasks
    /\ pactive = 0

\* ---- C34 -----------------------------------------------------------------
\* C34: the pool dispatches tasks in the order of the encode() calls (the
\* ids number the calls): whenever a worker is sent a task, every task
\* still queued was submitted after it, whichever worker it is.
C34_FifoDispatch ==
    [][\A w \in DOMAIN wtask :
          (wtask'[w] # 0 /\ wtask'[w] # wtask[w]) =>
              \A k \in 1..Len(pqueue') : wtask'[w] < pqueue'[k]]_vars

\* The first request has been dispatched and the second one waits in the
\* queue.
C34_Witness ==
    /\ pqueue = <<2>>
    /\ settled = <<>>
    /\ \E w \in DOMAIN wtask : wtask[w] = 1

\* ---- C35 -----------------------------------------------------------------
\* C35: when the report is delivered, the archive holds one entry per
\* successfully completed item: the number of its files is
\* report.successCount, whatever the source names are.
C35_OneEntryPerTrack ==
    completeCalls > 0 => Cardinality(zipFiles(archive)) = report.successCount

\* ---- C36 -----------------------------------------------------------------
\* C36: under the speed-exact policy two settings with the same speed and
\* different pitchShift give different effective resampling ratios
\* (playbackRate times 2^(detune/1200)), beyond the resolution of the
\* arithmetic.
C36_PitchInfluences ==
    (source # <<>> /\ policy = "speedExact") =>
        \A p \in PitchMin..PitchMax :
            p # request.pitchShift =>
                ~Within(computedPlaybackRate(resolve([request EXCEPT !.pitchShift = p])),
                        computedPlaybackRate(source[1]),
                        SpeedTolerance)

\* ---- C37 -----------------------------------------------------------------
\* C37: the progress values handed to the progress observer for one item
\* never decrease, also on the transition to error; each lies in 0..100
\* and 100 comes only with completed.
C37_ProgressMonotone ==
    \A i \in Items :
        \A k \in 1..Len(hist[i]) :
            /\ hist[i][k][2] \in 0..100
            /\ hist[i][k][2] = 100 => hist[i][k][1] = "completed"
            /\ k > 1 => hist[i][k][2] >= hist[i][k - 1][2]

\* ---- C38 -----------------------------------------------------------------
\* C38: once isProcessing is false and the cleanup of the UI loop effect
\* has run, no callback of the loop is pending, neither an animation frame
\* nor a timer, so no further iteration is scheduled or executed.
C38_LoopStops == (~isProcessing /\ ~uiMounted) => uiLoop = "off"

====
